---- MODULE Spec2Model ----
(***************************************************************************)
(* Model of the index-assignment analyzer pass (assign_indexes.go).        *)
(*                                                                         *)
(* Expressions, lookups and plan nodes are tagged tuples whose first       *)
(* element is the variant name.  Catalog calls made by the pass are        *)
(* recorded as events <<"B", index>> (borrow, IndexByExpression returned   *)
(* the index) and <<"R", index>> (ReleaseIndex).                           *)
(***************************************************************************)
EXTENDS Integers, Sequences, FiniteSets, TLC

VARIABLES cat, node, indexes, err, pc, todo, out, log, run, plan1

\* the state of concurrent compilations on one catalog: refs is the
\* reference count the catalog keeps per index, passes the state of every
\* running call of assignIndexes
VARIABLES refs, passes

vars ==
  <<cat, node, indexes, err, pc, todo, out, log, run, plan1, refs, passes>>

(***************************************************************************)
(* Bounds of the model.                                                    *)
(***************************************************************************)
\* literal values that appear in predicates are 1..MaxVal
MaxVal == 2
\* longest tuple on the right-hand side of an IN
MaxInLen == 3

Vals == 1..MaxVal
\* column values of table rows: one below and one above every literal
Keys == 0..(MaxVal + 1)

(***************************************************************************)
(* The schema and the catalog (external collaborators).                    *)
(***************************************************************************)
Tables == <<"t", "u">>

Cols == {"ta", "tb", "uc"}

\* te and ud are columns that only the predicates of CandidateAtoms read
ColTable(c) == IF c \in {"uc", "ud"} THEN "u" ELSE "t"

TableCols(tb) == IF tb = "t" THEN {"ta", "tb", "te"} ELSE {"uc", "ud"}

\* the indexes in the order the catalog lists them; column ud has none
IndexIds == <<"ia", "ib", "iab", "ic", "ie">>

NoIndex == "nil"

\* Index.ExpressionHashes: the ordered key columns of an index
ExpressionHashes(i) ==
  CASE i = "ia" -> <<"ta">>
    [] i = "ib" -> <<"tb">>
    [] i = "iab" -> <<"ta", "tb">>
    [] i = "ie" -> <<"te">>
    [] OTHER -> <<"uc">>

\* Index.Table
IndexTable(i) == ColTable(ExpressionHashes(i)[1])

\* The capabilities every index and lookup of one catalog advertises:
\* asc/desc: the index implements AscendIndex / DescendIndex;
\* merge: "full" the lookups implement Mergeable and SetOperations,
\*        "mergeOnly" Mergeable without SetOperations, "none" neither;
\* bad: a point lookup for this value is refused by IsMergeable (0: none).
Catalogs ==
  { [asc |-> TRUE, desc |-> TRUE, merge |-> "full", bad |-> 0],
    [asc |-> TRUE, desc |-> TRUE, merge |-> "full", bad |-> MaxVal],
    [asc |-> TRUE, desc |-> FALSE, merge |-> "full", bad |-> 0],
    [asc |-> FALSE, desc |-> TRUE, merge |-> "full", bad |-> 0],
    [asc |-> TRUE, desc |-> TRUE, merge |-> "none", bad |-> 0],
    [asc |-> TRUE, desc |-> TRUE, merge |-> "mergeOnly", bad |-> 0] }

(***************************************************************************)
(* Expressions.                                                            *)
(*   <<"Col", c>>            GetField of column c                          *)
(*   <<"Lit", v>>            literal value                                 *)
(*   <<"Tup", <<v1..vn>>>>   literal tuple                                 *)
(*   <<"Bad">>               column-free expression whose Eval fails       *)
(*   <<op, l, r>>            op in Eq, Lt, Gt, Le, Ge, In, And, Or         *)
(*   <<"Between", val, lower, upper>>                                      *)
(*   <<"Other">>             any variant the pass does not look into       *)
(***************************************************************************)
CmpOps == {"Eq", "Lt", "Gt", "Le", "Ge"}

Tag(e) == e[1]

isColumn(e) == Tag(e) = "Col"

RECURSIVE containsColumns(_)
containsColumns(e) ==
  CASE Tag(e) = "Col" -> TRUE
    [] Tag(e) \in {"Lit", "Tup", "Bad", "Other"} -> FALSE
    [] Tag(e) = "Between" ->
         containsColumns(e[2]) \/ containsColumns(e[3]) \/ containsColumns(e[4])
    [] OTHER -> containsColumns(e[2]) \/ containsColumns(e[3])

isEvaluable(e) == ~containsColumns(e)

\* Expression.Eval in an empty context of a column-free operand
EvalFails(e) == Tag(e) = "Bad"

EvalValue(e) == IF Tag(e) \in {"Lit", "Tup"} THEN e[2] ELSE 0

IsTuple(e) == Tag(e) = "Tup"

(***************************************************************************)
(* Lookups.                                                                *)
(*   <<"nil">>                              no lookup                      *)
(*   <<"Get", i, vals>>, <<"DescendGreater", i, vals>>, ...                *)
(*   <<"AscendRange", i, greaterOrEqual, lessThan>>                        *)
(*   <<"DescendRange", i, lessOrEqual, greaterThan>>                       *)
(*   <<"Union", l, r>>, <<"Intersection", l, r>>                           *)
(***************************************************************************)
NoLookup == <<"nil">>

RECURSIVE LookupIndex(_)
LookupIndex(l) ==
  IF Tag(l) \in {"Union", "Intersection"} THEN LookupIndex(l[2]) ELSE l[2]

\* the row's key under index i, position k
KeyAt(row, i, k) == row[ExpressionHashes(i)[k]]

KeyPositions(i) == 1..Len(ExpressionHashes(i))

\* row is in the key set of lookup l
RECURSIVE Matches(_, _)
Matches(l, row) ==
  CASE Tag(l) = "Get" ->
         \A k \in KeyPositions(l[2]) : KeyAt(row, l[2], k) = l[3][k]
    [] Tag(l) = "DescendGreater" ->
         \A k \in KeyPositions(l[2]) : KeyAt(row, l[2], k) > l[3][k]
    [] Tag(l) = "AscendGreaterOrEqual" ->
         \A k \in KeyPositions(l[2]) : KeyAt(row, l[2], k) >= l[3][k]
    [] Tag(l) = "AscendLessThan" ->
         \A k \in KeyPositions(l[2]) : KeyAt(row, l[2], k) < l[3][k]
    [] Tag(l) = "DescendLessOrEqual" ->
         \A k \in KeyPositions(l[2]) : KeyAt(row, l[2], k) <= l[3][k]
    [] Tag(l) = "AscendRange" ->
         \A k \in KeyPositions(l[2]) :
            KeyAt(row, l[2], k) >= l[3][k] /\ KeyAt(row, l[2], k) < l[4][k]
    [] Tag(l) = "DescendRange" ->
         \A k \in KeyPositions(l[2]) :
            KeyAt(row, l[2], k) <= l[3][k] /\ KeyAt(row, l[2], k) > l[4][k]
    [] Tag(l) = "Union" -> Matches(l[2], row) \/ Matches(l[3], row)
    [] Tag(l) = "Intersection" -> Matches(l[2], row) /\ Matches(l[3], row)
    [] OTHER -> FALSE

\* sql.Mergeable.IsMergeable: same physical index, and the other lookup is
\* not a point lookup for the value the catalog refuses to merge
IsMergeable(a, b) ==
  /\ LookupIndex(a) = LookupIndex(b)
  /\ ~(Tag(b) = "Get" /\ \E k \in 1..Len(b[3]) : b[3][k] = cat.bad)

AdvertisesMergeable(l) == cat.merge \in {"full", "mergeOnly"}

AdvertisesSetOperations(l) == cat.merge = "full"

canMergeIndexes(a, b) ==
  /\ AdvertisesMergeable(a)
  /\ IsMergeable(a, b)
  /\ AdvertisesSetOperations(a)

(***************************************************************************)
(* Catalog calls.                                                          *)
(***************************************************************************)
Borrow(i) == <<"B", i>>

Release(i) == <<"R", i>>

ReleaseAll(ixs) == [k \in 1..Len(ixs) |-> Release(ixs[k])]

\* Catalog.IndexByExpression: the index whose key is exactly the given
\* expressions (NoIndex when there is none); the caller records the borrow
IndexByExpression(exprs) ==
  IF \E k \in 1..Len(IndexIds) :
       /\ Len(ExpressionHashes(IndexIds[k])) = Len(exprs)
       /\ \A j \in 1..Len(exprs) :
            isColumn(exprs[j]) /\ exprs[j][2] = ExpressionHashes(IndexIds[k])[j]
  THEN LET k == CHOOSE k \in 1..Len(IndexIds) :
                  /\ Len(ExpressionHashes(IndexIds[k])) = Len(exprs)
                  /\ \A j \in 1..Len(exprs) :
                       /\ isColumn(exprs[j])
                       /\ exprs[j][2] = ExpressionHashes(IndexIds[k])[j]
       IN IndexIds[k]
  ELSE NoIndex

(***************************************************************************)
(* A LookupMap is a function from table names to bindings                  *)
(* [lookup, indexes]; the result of a step that talks to the catalog is    *)
(* [m, err, ev]: the map, the error ("nil" when none, "panic" for a failed *)
(* type assertion) and the catalog events in call order.                   *)
(***************************************************************************)
EmptyMap == <<>>

Binding(lookup, ixs) == [lookup |-> lookup, indexes |-> ixs]

Res(m, e, ev) == [m |-> m, err |-> e, ev |-> ev]

\* the entry is installed in the wrapper but stays in the map
WithoutDelete(m, tb) == m

\* delete(indexes, table.Name())
Without(m, tb) == [x \in (DOMAIN m) \ {tb} |-> m[x]]

\* the lookup is built without asking for the capability of the index
comparisonIndexLookupAnyIndex(op, idx, values) ==
  CASE op = "Eq" -> <<"Get", idx, values>>
    [] op = "Gt" -> <<"DescendGreater", idx, values>>
    [] op = "Ge" -> <<"AscendGreaterOrEqual", idx, values>>
    [] op = "Lt" -> <<"AscendLessThan", idx, values>>
    [] op = "Le" -> <<"DescendLessOrEqual", idx, values>>
    [] OTHER -> NoLookup

comparisonIndexLookup(op, idx, values) ==
  CASE op = "Eq" -> <<"Get", idx, values>>
    [] op = "Gt" ->
         IF ~cat.desc THEN NoLookup ELSE <<"DescendGreater", idx, values>>
    [] op = "Ge" ->
         IF ~cat.asc THEN NoLookup ELSE <<"AscendGreaterOrEqual", idx, values>>
    [] op = "Lt" ->
         IF ~cat.asc THEN NoLookup ELSE <<"AscendLessThan", idx, values>>
    [] op = "Le" ->
         IF ~cat.desc THEN NoLookup ELSE <<"DescendLessOrEqual", idx, values>>
    [] OTHER -> NoLookup

\* [lookup, panic]: panic is the failed assertion ascendLookup.(SetOperations)
betweenIndexLookup(index, upper, lower) ==
  LET ascendLookup == <<"AscendRange", index, lower, upper>>
      descendLookup == <<"DescendRange", index, upper, lower>>
  IN IF cat.asc /\ cat.desc
        /\ AdvertisesMergeable(ascendLookup)
        /\ IsMergeable(ascendLookup, descendLookup)
     THEN IF AdvertisesSetOperations(ascendLookup)
          THEN [lookup |-> <<"Union", ascendLookup, descendLookup>>,
                panic |-> FALSE]
          ELSE [lookup |-> NoLookup, panic |-> TRUE]
     ELSE [lookup |-> NoLookup, panic |-> FALSE]

\* mergeable lookups are united
IntersectEntryUnion(left, right, tb) ==
  IF tb \in DOMAIN right /\ canMergeIndexes(left[tb].lookup, right[tb].lookup)
  THEN Binding(<<"Union", left[tb].lookup, right[tb].lookup>>,
               left[tb].indexes \o right[tb].indexes)
  ELSE left[tb]

\* the right entry, whose indexes are released, replaces the left one
IntersectEntryKeepRight(left, right, tb) ==
  IF tb \in DOMAIN right /\ canMergeIndexes(left[tb].lookup, right[tb].lookup)
  THEN Binding(<<"Intersection", left[tb].lookup, right[tb].lookup>>,
               left[tb].indexes \o right[tb].indexes)
  ELSE IF tb \in DOMAIN right THEN right[tb] ELSE left[tb]

\* one iteration of the first loop of indexesIntersection
IntersectEntry(left, right, tb) ==
  IF tb \in DOMAIN right /\ canMergeIndexes(left[tb].lookup, right[tb].lookup)
  THEN Binding(<<"Intersection", left[tb].lookup, right[tb].lookup>>,
               left[tb].indexes \o right[tb].indexes)
  ELSE left[tb]

\* the right entry that cannot be merged is dropped without a release
IntersectReleasesNone(left, right, tb) == <<>>

\* the indexes of the left entry are released with those of the right
IntersectReleasesBoth(left, right, tb) ==
  IF tb \in DOMAIN left /\ tb \in DOMAIN right
     /\ ~canMergeIndexes(left[tb].lookup, right[tb].lookup)
  THEN ReleaseAll(left[tb].indexes) \o ReleaseAll(right[tb].indexes)
  ELSE <<>>

IntersectReleases(left, right, tb) ==
  IF tb \in DOMAIN left /\ tb \in DOMAIN right
     /\ ~canMergeIndexes(left[tb].lookup, right[tb].lookup)
  THEN ReleaseAll(right[tb].indexes)
  ELSE <<>>

indexesIntersection(left, right) ==
  [m |-> [tb \in (DOMAIN left) \cup (DOMAIN right) |->
            IF tb \in DOMAIN left THEN IntersectEntry(left, right, tb)
            ELSE right[tb]],
   ev |-> IntersectReleases(left, right, Tables[1])
          \o IntersectReleases(left, right, Tables[2])]

\* the two loops of case *expression.Or
UnionEntry(left, right, tb) ==
  IF tb \in DOMAIN right /\ canMergeIndexes(left[tb].lookup, right[tb].lookup)
  THEN Binding(<<"Union", left[tb].lookup, right[tb].lookup>>,
               left[tb].indexes \o right[tb].indexes)
  ELSE left[tb]

indexesUnion(left, right) ==
  [tb \in (DOMAIN left) \cup (DOMAIN right) |->
     IF tb \in DOMAIN left THEN UnionEntry(left, right, tb) ELSE right[tb]]

\* the body of getComparisonIndex once the catalog has answered with idx
comparisonIndexFor(e, idx, right) ==
  IF idx = NoIndex
  THEN [idx |-> NoIndex, lookup |-> NoLookup, err |-> "nil", ev |-> <<>>]
  ELSE IF EvalFails(right)
  THEN [idx |-> NoIndex, lookup |-> NoLookup, err |-> "EvalFailure",
        ev |-> <<Borrow(idx), Release(idx)>>]
  ELSE IF comparisonIndexLookup(Tag(e), idx, <<EvalValue(right)>>) = NoLookup
  THEN [idx |-> NoIndex, lookup |-> NoLookup, err |-> "nil",
        ev |-> <<Borrow(idx), Release(idx)>>]
  ELSE [idx |-> idx,
        lookup |-> comparisonIndexLookup(Tag(e), idx, <<EvalValue(right)>>),
        err |-> "nil", ev |-> <<Borrow(idx)>>]

\* [idx, lookup, err, ev]
getComparisonIndex(e) ==
  LET swap == ~isEvaluable(e[3])
      left == IF swap THEN e[3] ELSE e[2]
      right == IF swap THEN e[2] ELSE e[3]
  IN IF ~isEvaluable(left) /\ isEvaluable(right)
     THEN comparisonIndexFor(e, IndexByExpression(<<left>>), right)
     ELSE [idx |-> NoIndex, lookup |-> NoLookup, err |-> "nil", ev |-> <<>>]

\* lines 179-186: the map built from what getComparisonIndex returned
comparisonResult(r) ==
  IF r.err # "nil" \/ r.lookup = NoLookup
  THEN Res(EmptyMap, r.err, r.ev)
  ELSE Res(IndexTable(r.idx) :> Binding(r.lookup, <<r.idx>>), "nil", r.ev)

\* case of the five comparisons in getIndexes
getIndexesComparison(e) == comparisonResult(getComparisonIndex(e))

\* the loop over values[1:] of case *expression.In: [ok, lookup]
RECURSIVE InUnion(_, _, _, _)
InUnion(idx, values, k, lookup) ==
  IF k > Len(values) THEN [ok |-> TRUE, lookup |-> lookup]
  ELSE IF ~canMergeIndexes(lookup, <<"Get", idx, <<values[k]>>>>)
  THEN [ok |-> FALSE, lookup |-> lookup]
  ELSE InUnion(idx, values, k + 1,
               <<"Union", lookup, <<"Get", idx, <<values[k]>>>>>>)

\* the lookup merged so far is installed although the loop stopped early
inResultPartial(idx, u) ==
  Res(IndexTable(idx) :> Binding(u.lookup, <<idx>>), "nil", <<Borrow(idx)>>)

\* lines 153-170: the map after the loop over the values
inResult(idx, u) ==
  IF ~u.ok THEN Res(EmptyMap, "nil", <<Borrow(idx), Release(idx)>>)
  ELSE Res(IndexTable(idx) :> Binding(u.lookup, <<idx>>), "nil", <<Borrow(idx)>>)

\* lines 130-171: case *expression.In once the catalog has answered with idx
inIndexFor(e, idx) ==
  IF idx = NoIndex THEN Res(EmptyMap, "nil", <<>>)
  ELSE IF EvalFails(e[3])
  THEN Res(EmptyMap, "EvalFailure", <<Borrow(idx), Release(idx)>>)
  ELSE IF ~IsTuple(e[3])
  THEN Res(EmptyMap, "InvalidInRhs", <<Borrow(idx), Release(idx)>>)
  ELSE inResult(idx, InUnion(idx, EvalValue(e[3]), 2,
                             <<"Get", idx, <<EvalValue(e[3])[1]>>>>))

getIndexesIn(e) ==
  IF ~isEvaluable(e[2]) /\ isEvaluable(e[3])
  THEN inIndexFor(e, IndexByExpression(<<e[2]>>))
  ELSE Res(EmptyMap, "nil", <<>>)

\* lines 208-222: the map built from what betweenIndexLookup returned
betweenResult(idx, b) ==
  IF b.panic THEN Res(EmptyMap, "panic", <<Borrow(idx), Release(idx)>>)
  ELSE IF b.lookup = NoLookup
  THEN Res(EmptyMap, "nil", <<Borrow(idx), Release(idx)>>)
  ELSE Res(IndexTable(idx) :> Binding(b.lookup, <<idx>>), "nil", <<Borrow(idx)>>)

\* lines 190-223: case *expression.Between once the catalog has answered
betweenIndexFor(e, idx) ==
  IF idx = NoIndex THEN Res(EmptyMap, "nil", <<>>)
  ELSE IF EvalFails(e[4]) \/ EvalFails(e[3])
  THEN Res(EmptyMap, "EvalFailure", <<Borrow(idx), Release(idx)>>)
  ELSE betweenResult(idx, betweenIndexLookup(idx, <<EvalValue(e[4])>>,
                                             <<EvalValue(e[3])>>))

getIndexesBetween(e) ==
  IF ~isEvaluable(e[2]) /\ isEvaluable(e[4]) /\ isEvaluable(e[3])
  THEN betweenIndexFor(e, IndexByExpression(<<e[2]>>))
  ELSE Res(EmptyMap, "nil", <<>>)

(***************************************************************************)
(* Multi-column matching.  A columnExpr is [col, val, expr, pos]: pos is   *)
(* the position of the conjunct in the split conjunction and stands for    *)
(* the identity of the expression (the code keys `used` and compares       *)
(* columns by pointer).                                                    *)
(***************************************************************************)
NilExpr == <<"nil">>

RECURSIVE Flatten(_)
Flatten(ss) == IF Len(ss) = 0 THEN <<>> ELSE Head(ss) \o Flatten(Tail(ss))

\* splitExpression: the conjuncts of a tree of Ands, left to right
RECURSIVE splitExpression(_)
splitExpression(e) ==
  IF Tag(e) # "And" THEN <<e>>
  ELSE splitExpression(e[2]) \o splitExpression(e[3])

\* the columnExpr appended for conjunct e at position k, if any
columnExprOf(e, k) ==
  IF Tag(e) \in CmpOps
  THEN LET swap == ~isEvaluable(e[3])
           left == IF swap THEN e[3] ELSE e[2]
           right == IF swap THEN e[2] ELSE e[3]
       IN IF ~isEvaluable(right) \/ ~isColumn(left) THEN <<>>
          ELSE <<[col |-> left[2], val |-> right, expr |-> e, pos |-> k]>>
  ELSE IF Tag(e) = "Between"
  THEN IF ~isEvaluable(e[4]) \/ ~isEvaluable(e[3]) \/ isEvaluable(e[2])
          \/ ~isColumn(e[2])
       THEN <<>>
       ELSE <<[col |-> e[2][2], val |-> NilExpr, expr |-> e, pos |-> k]>>
  ELSE <<>>

columnExprsByTable(exprs) ==
  LET all == Flatten([k \in 1..Len(exprs) |-> columnExprOf(exprs[k], k)])
      OfTable(tb) == LET Here(ce) == ColTable(ce.col) = tb
                     IN SelectSeq(all, Here)
  IN [j \in 1..Len(Tables) |-> OfTable(Tables[j])]

\* the expression types of a list of columnExprs in order of first appearance
RECURSIVE OperatorsOf(_)
OperatorsOf(exps) ==
  IF Len(exps) = 0 THEN <<>>
  ELSE LET op == Tag(Head(exps).expr)
           Rest(ce) == Tag(ce.expr) # op
       IN <<op>> \o OperatorsOf(SelectSeq(Tail(exps), Rest))

groupExpressionsByOperator(exps) ==
  LET ops == OperatorsOf(exps)
  IN [g \in 1..Len(ops) |->
        LET Same(ce) == Tag(ce.expr) = ops[g] IN SelectSeq(exps, Same)]

findColumnByHash(cols, hash) ==
  cols[CHOOSE k \in 1..Len(cols) :
         /\ cols[k].col = hash
         /\ \A j \in 1..(k - 1) : cols[j].col # hash]

\* Catalog.ExpressionsWithIndexes: for every index, in catalog order, the
\* covered prefix of its key, built from the given columns
CoveredPrefix(cols, i) ==
  LET hashes == ExpressionHashes(i)
      Covered(j) == \E k \in 1..Len(cols) : cols[k].col = hashes[j]
      n == CHOOSE n \in 0..Len(hashes) :
             /\ \A j \in 1..n : Covered(j)
             /\ n < Len(hashes) => ~Covered(n + 1)
  IN [j \in 1..n |-> findColumnByHash(cols, hashes[j])]

ExpressionsWithIndexes(cols) ==
  LET NonEmpty(l) == Len(l) > 0
  IN SelectSeq([k \in 1..Len(IndexIds) |-> CoveredPrefix(cols, IndexIds[k])],
               NonEmpty)

\* a later candidate of the same length replaces the selected one
RECURSIVE LongestLast(_, _)
LongestLast(exprList, selected) ==
  IF Len(exprList) = 0 THEN selected
  ELSE LongestLast(Tail(exprList),
                   IF Len(Head(exprList)) >= Len(selected) THEN Head(exprList)
                   ELSE selected)

\* the loop `if len(l) > len(selected)` of getMultiColumnIndexes
RECURSIVE Longest(_, _)
Longest(exprList, selected) ==
  IF Len(exprList) = 0 THEN selected
  ELSE Longest(Tail(exprList),
               IF Len(Head(exprList)) > Len(selected) THEN Head(exprList)
               ELSE selected)

\* lines 455-493 of getMultiColumnIndexForExpressions: the lookup for the
\* index the catalog answered with; first is the conjunct of selected[0]
multiColumnLookup(index, first, exprs, used) ==
  LET hashes == ExpressionHashes(index)
      col(i) == findColumnByHash(exprs, hashes[i])
      Fails(i) == IF Tag(first.expr) = "Between"
                  THEN EvalFails(col(i).expr[3]) \/ EvalFails(col(i).expr[4])
                  ELSE EvalFails(col(i).val)
      failing == {i \in 1..Len(hashes) : Fails(i)}
      upto == IF failing = {} THEN Len(hashes)
              ELSE CHOOSE i \in failing : \A j \in failing : i <= j
      r == [index |-> index, lookup |-> NoLookup, err |-> "nil",
            used |-> used \cup {col(i).pos : i \in 1..upto},
            ev |-> <<Borrow(index)>>]
      b == betweenIndexLookup(index,
                              [i \in 1..Len(hashes) |-> EvalValue(col(i).expr[4])],
                              [i \in 1..Len(hashes) |-> EvalValue(col(i).expr[3])])
  IN IF index = NoIndex
     THEN [index |-> NoIndex, lookup |-> NoLookup, err |-> "nil",
           used |-> used, ev |-> <<>>]
     ELSE IF failing # {} THEN [r EXCEPT !.err = "EvalFailure"]
     ELSE IF Tag(first.expr) = "Between"
     THEN [r EXCEPT !.err = IF b.panic THEN "panic" ELSE "nil",
                    !.lookup = b.lookup]
     ELSE [r EXCEPT !.lookup =
             comparisonIndexLookup(Tag(first.expr), index,
                [i \in 1..Len(hashes) |-> EvalValue(col(i).val)])]

\* [index, lookup, err, used, ev]
getMultiColumnIndexForExpressions(selected, exprs, used) ==
  multiColumnLookup(
    IndexByExpression([k \in 1..Len(selected) |-> <<"Col", selected[k].col>>]),
    exprs[CHOOSE k \in 1..Len(exprs) :
            /\ exprs[k].pos = selected[1].pos
            /\ \A j \in 1..(k - 1) : exprs[j].pos # selected[1].pos],
    exprs, used)

\* the (table, kind) groups in the order the loops of getMultiColumnIndexes
\* visit them.  Go ranges over the tables of a map in no fixed order; the
\* model takes the order of Tables: the events of different tables are about
\* different indexes, so the per-index counts do not depend on it.
GroupsOf(exprs) ==
  LET byTable == columnExprsByTable(exprs)
  IN Flatten([j \in 1..Len(Tables) |->
                LET gs == groupExpressionsByOperator(byTable[j])
                IN [g \in 1..Len(gs) |-> [table |-> Tables[j], exps |-> gs[g]]]])

\* the inner loop of getMultiColumnIndexes from group k on: [m, err, used, ev]
RECURSIVE MultiColumnLoop(_, _, _, _, _)

\* lines 419-427: the lookup of the group is put into the result
multiColumnMerge(groups, k, x, used, ev) ==
  MultiColumnLoop(groups, k + 1, x.m, used, ev \o x.ev)

\* lines 408-427: what getMultiColumnIndexForExpressions returned is r
multiColumnStep(groups, k, result, ev, r) ==
  IF r.err = "panic"
  THEN [m |-> EmptyMap, err |-> "panic", used |-> r.used, ev |-> ev \o r.ev]
  ELSE IF r.err # "nil"
  THEN [m |-> EmptyMap, err |-> r.err, used |-> r.used,
        ev |-> ev \o r.ev
               \o (IF r.index # NoIndex THEN <<Release(r.index)>> ELSE <<>>)]
  ELSE IF r.lookup = NoLookup
  THEN MultiColumnLoop(groups, k + 1, result, r.used,
         ev \o r.ev
            \o (IF r.index # NoIndex THEN <<Release(r.index)>> ELSE <<>>))
  ELSE IF groups[k].table \in DOMAIN result
  THEN multiColumnMerge(groups, k,
         indexesIntersection(result,
            groups[k].table :> Binding(r.lookup, <<r.index>>)),
         r.used, ev \o r.ev)
  ELSE MultiColumnLoop(groups, k + 1,
         result @@ (groups[k].table :> Binding(r.lookup, <<r.index>>)),
         r.used, ev \o r.ev)

\* lines 400-408: the candidate selected for the group
multiColumnSelected(groups, k, result, used, ev, selected) ==
  IF Len(selected) = 0 THEN MultiColumnLoop(groups, k + 1, result, used, ev)
  ELSE multiColumnStep(groups, k, result, ev,
         getMultiColumnIndexForExpressions(selected, groups[k].exps, used))

MultiColumnLoop(groups, k, result, used, ev) ==
  IF k > Len(groups)
  THEN [m |-> result, err |-> "nil", used |-> used, ev |-> ev]
  ELSE multiColumnSelected(groups, k, result, used, ev,
         Longest(ExpressionsWithIndexes(groups[k].exps), <<>>))

getMultiColumnIndexes(exprs) ==
  MultiColumnLoop(GroupsOf(exprs), 1, EmptyMap, {}, <<>>)

(***************************************************************************)
(* getIndexes.                                                             *)
(***************************************************************************)
RECURSIVE getIndexes(_)
RECURSIVE AndLoop(_, _, _, _, _)

\* lines 100-123: the branches returned l and r
orResult(l, r) ==
  IF l.err # "nil" THEN Res(EmptyMap, l.err, l.ev)
  ELSE IF r.err # "nil" THEN Res(EmptyMap, r.err, l.ev \o r.ev)
  ELSE Res(indexesUnion(l.m, r.m), "nil", l.ev \o r.ev)

\* case *expression.Or
getIndexesOr(e) == orResult(getIndexes(e[2]), getIndexes(e[3]))

\* the conjuncts the multi-column matcher used are looked up again
andAfterMultiAll(exprs, multi) ==
  IF multi.err # "nil" THEN Res(EmptyMap, multi.err, multi.ev)
  ELSE AndLoop(exprs, 1, {}, multi.m, multi.ev)

\* lines 229-234: getMultiColumnIndexes returned multi
andAfterMulti(exprs, multi) ==
  IF multi.err # "nil" THEN Res(EmptyMap, multi.err, multi.ev)
  ELSE AndLoop(exprs, 1, multi.used, multi.m, multi.ev)

andConjuncts(exprs) == andAfterMulti(exprs, getMultiColumnIndexes(exprs))

\* case *expression.And
getIndexesAnd(e) == andConjuncts(splitExpression(e))

\* line 244: the map of the conjunct is intersected into the result
andMerge(exprs, k, used, x, ev) == AndLoop(exprs, k + 1, used, x.m, ev \o x.ev)

\* lines 239-244: getIndexes of conjunct k returned r
andStep(exprs, k, used, result, ev, r) ==
  IF r.err # "nil" THEN Res(EmptyMap, r.err, ev \o r.ev)
  ELSE andMerge(exprs, k, used, indexesIntersection(result, r.m), ev \o r.ev)

\* the loop over the conjuncts of case *expression.And, from conjunct k on
AndLoop(exprs, k, used, result, ev) ==
  IF k > Len(exprs) THEN Res(result, "nil", ev)
  ELSE IF k \in used THEN AndLoop(exprs, k + 1, used, result, ev)
  ELSE andStep(exprs, k, used, result, ev, getIndexes(exprs[k]))

getIndexes(e) ==
  CASE Tag(e) = "Or" -> getIndexesOr(e)
    [] Tag(e) = "In" -> getIndexesIn(e)
    [] Tag(e) \in CmpOps -> getIndexesComparison(e)
    [] Tag(e) = "Between" -> getIndexesBetween(e)
    [] Tag(e) = "And" -> getIndexesAnd(e)
    [] OTHER -> Res(EmptyMap, "nil", <<>>)

(***************************************************************************)
(* Plan nodes.                                                             *)
(*   <<"Filter", pred, child>>    plan.Filter                              *)
(*   <<"Join", left, right>>      a binary node (cross join)               *)
(*   <<"Scan", name>>             a table scan that is sql.Indexable       *)
(*   <<"Indexed", name, binding>> *indexable wrapping the scan of `name`   *)
(*   <<"Unresolved", name>>       an unresolved table                      *)
(* A path is the sequence of tuple positions leading from the root to a    *)
(* node.                                                                   *)
(***************************************************************************)
NilNode == <<"nil">>

\* Node.Children; (*indexable).Children returns nil
Children(n) ==
  CASE Tag(n) = "Filter" -> <<3>>
    [] Tag(n) = "Join" -> <<2, 3>>
    [] OTHER -> <<>>

RECURSIVE NodeAt(_, _)
NodeAt(n, p) == IF Len(p) = 0 THEN n ELSE NodeAt(n[Head(p)], Tail(p))

\* the wrapper takes the place of the whole plan
ReplaceRoot(n, p, new) == new

RECURSIVE ReplaceAt(_, _, _)
ReplaceAt(n, p, new) ==
  IF Len(p) = 0 THEN new
  ELSE [n EXCEPT ![Head(p)] = ReplaceAt(n[Head(p)], Tail(p), new)]

ChildPaths(n, p) == [k \in 1..Len(Children(n)) |-> Append(p, Children(n)[k])]

\* the pass takes every plan for resolved
ResolvedAlways(n) == TRUE

RECURSIVE Resolved(_)
Resolved(n) ==
  /\ Tag(n) # "Unresolved"
  /\ \A k \in 1..Len(Children(n)) : Resolved(n[Children(n)[k]])

\* the order in which TransformUp applies its function: children first
RECURSIVE PostOrder(_, _)
PostOrder(n, p) ==
  Flatten([k \in 1..Len(Children(n)) |->
             PostOrder(n[Children(n)[k]], Append(p, Children(n)[k]))])
  \o <<p>>

NilIndexes == [nil |-> TRUE, m |-> EmptyMap]

\* the releases of the deferred function of assignIndexes
DeferredReleases(ix) ==
  Flatten([j \in 1..Len(Tables) |->
             IF Tables[j] \in DOMAIN ix.m
             THEN ReleaseAll(ix.m[Tables[j]].indexes) ELSE <<>>])

(***************************************************************************)
(* The inputs: predicates and plans.                                       *)
(***************************************************************************)
ColE(c) == <<"Col", c>>

LitE(v) == <<"Lit", v>>

BadE == <<"Bad">>

Tuples == UNION {[1..n -> Vals] : n \in 1..MaxInLen}

CmpAtoms ==
  {<<op, ColE(c), LitE(v)>> : op \in CmpOps, c \in Cols, v \in Vals}
  \cup {<<op, LitE(v), ColE(c)>> : op \in CmpOps, c \in Cols, v \in Vals}

InAtoms == {<<"In", ColE(c), <<"Tup", s>>>> : c \in Cols, s \in Tuples}

BetweenAtoms ==
  {<<"Between", ColE(c), LitE(lo), LitE(hi)>> : c \in Cols, lo \in Vals, hi \in Vals}

\* predicates whose evaluation fails, or whose IN has no tuple on the right
ErrAtoms ==
  {<<"Eq", ColE(c), BadE>> : c \in Cols}
  \cup {<<"In", ColE(c), BadE>> : c \in Cols}
  \cup {<<"In", ColE(c), LitE(1)>> : c \in Cols}
  \cup {<<"Between", ColE(c), LitE(1), BadE>> : c \in Cols}

\* predicates no index applies to
PlainAtoms ==
  {<<"Other">>, <<"Eq", ColE("ta"), ColE("uc")>>, <<"Eq", LitE(1), LitE(1)>>}

Atoms == CmpAtoms \cup InAtoms \cup BetweenAtoms \cup ErrAtoms \cup PlainAtoms

\* the operands of the two-operand predicates: literals 1 and MaxVal
PairAtoms ==
  {<<op, ColE(c), LitE(v)>> : op \in CmpOps, c \in Cols, v \in {1, MaxVal}}
  \cup {<<"In", ColE(c), <<"Tup", <<1, MaxVal>>>>>> : c \in Cols}
  \cup {<<"Between", ColE(c), LitE(1), LitE(MaxVal)>> : c \in Cols}
  \cup {<<"Eq", ColE(c), BadE>> : c \in Cols}
  \cup {<<"Other">>}

Pairs == {<<op, x, y>> : op \in {"And", "Or"}, x \in PairAtoms, y \in PairAtoms}

\* the predicates of plans with two Filter nodes
FewAtoms ==
  {<<op, ColE(c), LitE(1)>> : op \in {"Eq", "Ge"}, c \in Cols}
  \cup {<<"Lt", ColE("ta"), LitE(MaxVal)>>, <<"Eq", ColE("ta"), BadE>>,
        <<"In", ColE("tb"), LitE(1)>>, <<"Other">>}

\* a predicate whose map lists two borrows of one index
TwoIndexAtoms ==
  {<<"And", <<"Eq", ColE("ta"), LitE(1)>>, <<"Ge", ColE("ta"), LitE(1)>>>>}

\* the predicates of plans with three Filter nodes
ChainAtoms ==
  {<<"Eq", ColE("ta"), LitE(1)>>, <<"Ge", ColE("ta"), LitE(1)>>,
   <<"Lt", ColE("ta"), LitE(MaxVal)>>}

\* the conjuncts of the predicates about the candidates of the
\* multi-column matcher: ud has no index, tb and te have one index each
CandidateAtoms ==
  {<<"Eq", ColE(c), LitE(1)>> : c \in {"tb", "te", "uc", "ud"}}
  \cup {<<"Gt", ColE("te"), LitE(1)>>, <<"Gt", ColE("ud"), LitE(1)>>}

CandidatePairs == {<<"And", x, y>> : x \in CandidateAtoms, y \in CandidateAtoms}

ScanT == <<"Scan", "t">>

ScanU == <<"Scan", "u">>

Plans ==
  {<<"Filter", p, ScanT>> : p \in Atoms}
  \cup {<<"Filter", p, <<"Join", ScanT, ScanU>>>> : p \in Atoms \cup Pairs}
  \cup {<<"Filter", p, <<"Join", ScanT, ScanT>>>> : p \in FewAtoms}
  \cup {<<"Filter", p, <<"Filter", q, ScanT>>>> : p \in FewAtoms, q \in FewAtoms}
  \cup {<<"Join", <<"Filter", p, s>>, <<"Filter", q, ScanT>>>> :
          p \in FewAtoms, q \in FewAtoms, s \in {ScanT, ScanU}}
  \cup {<<"Filter", p, <<"Filter", q, ScanT>>>> :
          p \in FewAtoms, q \in TwoIndexAtoms}
  \cup {<<"Filter", p, <<"Filter", q, <<"Filter", r, ScanT>>>>>> :
          p \in ChainAtoms, q \in ChainAtoms, r \in ChainAtoms}
  \cup {<<"Filter", p, <<"Join", ScanT, ScanU>>>> : p \in CandidatePairs}
  \cup {<<"Filter", p, <<"Unresolved", "t">>>> : p \in FewAtoms}

(***************************************************************************)
(* assignIndexes as a state machine.                                       *)
(*   pc = "start"      before the call                                     *)
(*   pc = "inspect"    inside plan.Inspect; todo is the stack of paths     *)
(*                     still to visit                                      *)
(*   pc = "transform"  inside TransformUp; todo is the list of paths still *)
(*                     to transform, bottom-up; out is the plan so far     *)
(*   pc = "return"     the function is returning; the deferred release has *)
(*                     not run yet                                         *)
(*   pc = "done"       returned: out is the returned node, err the error   *)
(* run counts the applications of the pass: the second one is applied to   *)
(* the plan plan1 returned by the first.                                   *)
(***************************************************************************)
\* no index is referenced
ZeroRefs == [i \in {IndexIds[k] : k \in 1..Len(IndexIds)} |-> 0]

\* no concurrent call is running
NoPasses == <<>>

Init ==
  /\ cat \in Catalogs
  /\ refs = ZeroRefs
  /\ passes = NoPasses
  /\ node \in Plans
  /\ indexes = NilIndexes
  /\ err = "nil"
  /\ pc = "start"
  /\ todo = <<>>
  /\ out = NilNode
  /\ log = <<>>
  /\ run = 1
  /\ plan1 = NilNode

\* lines 24-27: an unresolved node is returned as it is
SkipUnresolved ==
  /\ pc = "start"
  /\ ~Resolved(node)
  /\ pc' = "done"
  /\ out' = node
  /\ UNCHANGED <<cat, refs, passes, node, indexes, err, todo, log, run, plan1>>

\* lines 29-46: the call of plan.Inspect on the root
StartInspect ==
  /\ pc = "start"
  /\ Resolved(node)
  /\ pc' = "inspect"
  /\ todo' = << <<>> >>
  /\ UNCHANGED <<cat, refs, passes, node, indexes, err, out, log, run, plan1>>

\* lines 47-50: the callback on a node that is not a Filter
InspectOther ==
  /\ pc = "inspect"
  /\ Len(todo) > 0
  /\ Tag(NodeAt(node, Head(todo))) # "Filter"
  /\ todo' = ChildPaths(NodeAt(node, Head(todo)), Head(todo)) \o Tail(todo)
  /\ UNCHANGED <<cat, refs, passes, node, indexes, err, pc, out, log, run, plan1>>

\* lines 58-62: the result of the Filter is folded into the running map
foldIndexes(result, x) ==
  IF indexes.nil
  THEN /\ indexes' = [nil |-> FALSE, m |-> result.m]
       /\ log' = log \o result.ev
  ELSE /\ indexes' = [nil |-> FALSE, m |-> x.m]
       /\ log' = log \o result.ev \o x.ev

\* lines 53-64: getIndexes returned result for the Filter at the top of todo
filterVisited(filter, result) ==
  /\ err' = result.err
  /\ IF result.err = "panic"
     THEN /\ pc' = "return"
          /\ todo' = <<>>
          /\ log' = log \o result.ev
          /\ UNCHANGED indexes
     ELSE IF result.err # "nil"
     THEN /\ todo' = Tail(todo)
          /\ log' = log \o result.ev
          /\ UNCHANGED <<pc, indexes>>
     ELSE /\ todo' = ChildPaths(filter, Head(todo)) \o Tail(todo)
          /\ UNCHANGED pc
          /\ foldIndexes(result, indexesIntersection(indexes.m, result.m))

\* lines 52-64: the callback on a Filter
InspectFilter ==
  /\ pc = "inspect"
  /\ Len(todo) > 0
  /\ Tag(NodeAt(node, Head(todo))) = "Filter"
  /\ filterVisited(NodeAt(node, Head(todo)),
                   getIndexes(NodeAt(node, Head(todo))[2]))
  /\ UNCHANGED <<cat, refs, passes, node, out, run, plan1>>

\* lines 67-69: Inspect has returned with an error in err
ReturnError ==
  /\ pc = "inspect"
  /\ Len(todo) = 0
  /\ err # "nil"
  /\ pc' = "return"
  /\ UNCHANGED <<cat, refs, passes, node, indexes, err, todo, out, log, run, plan1>>

\* line 71: Inspect has returned without error; TransformUp starts
StartTransform ==
  /\ pc = "inspect"
  /\ Len(todo) = 0
  /\ err = "nil"
  /\ pc' = "transform"
  /\ todo' = PostOrder(node, <<>>)
  /\ out' = node
  /\ UNCHANGED <<cat, refs, passes, node, indexes, err, log, run, plan1>>

\* lines 72-87: the transform function leaves the node as it is
TransformKeep ==
  /\ pc = "transform"
  /\ Len(todo) > 0
  /\ LET n == NodeAt(out, Head(todo))
     IN Tag(n) = "Scan" => n[2] \notin DOMAIN indexes.m
  /\ todo' = Tail(todo)
  /\ UNCHANGED <<cat, refs, passes, node, indexes, err, pc, out, log, run, plan1>>

\* lines 84-91: the transform function wraps an Indexable scan
TransformWrap ==
  /\ pc = "transform"
  /\ Len(todo) > 0
  /\ LET n == NodeAt(out, Head(todo))
     IN /\ Tag(n) = "Scan"
        /\ n[2] \in DOMAIN indexes.m
        /\ out' = ReplaceAt(out, Head(todo), <<"Indexed", n[2], indexes.m[n[2]]>>)
        /\ indexes' = [indexes EXCEPT !.m = Without(indexes.m, n[2])]
  /\ todo' = Tail(todo)
  /\ UNCHANGED <<cat, refs, passes, node, err, pc, log, run, plan1>>

\* TransformUp has returned the new plan
ReturnPlan ==
  /\ pc = "transform"
  /\ Len(todo) = 0
  /\ pc' = "return"
  /\ UNCHANGED <<cat, refs, passes, node, indexes, err, todo, out, log, run, plan1>>

\* lines 33-43: the deferred release of what is still in the map
DeferredRelease ==
  /\ pc = "return"
  /\ pc' = "done"
  /\ log' = log \o (IF indexes.nil THEN <<>> ELSE DeferredReleases(indexes))
  /\ UNCHANGED <<cat, refs, passes, node, indexes, err, todo, out, run, plan1>>

\* the caller applies the pass to the plan the first application returned
ApplyAgain ==
  /\ pc = "done"
  /\ run = 1
  /\ err = "nil"
  /\ run' = 2
  /\ plan1' = out
  /\ node' = out
  /\ indexes' = NilIndexes
  /\ pc' = "start"
  /\ out' = NilNode
  /\ log' = <<>>
  /\ UNCHANGED <<cat, refs, passes, err, todo>>

Next ==
  \/ SkipUnresolved
  \/ StartInspect
  \/ InspectOther
  \/ InspectFilter
  \/ ReturnError
  \/ StartTransform
  \/ TransformKeep
  \/ TransformWrap
  \/ ReturnPlan
  \/ DeferredRelease
  \/ ApplyAgain

Spec == Init /\ [][Next]_vars

(***************************************************************************)
(* Accounting of borrows, releases and embedded indexes.                   *)
(***************************************************************************)
IndexSet == {IndexIds[k] : k \in 1..Len(IndexIds)}

Occurrences(s, x) == Cardinality({k \in 1..Len(s) : s[k] = x})

Borrows(s, i) == Occurrences(s, Borrow(i))

Releases(s, i) == Occurrences(s, Release(i))

RECURSIVE SumOver(_, _)
SumOver(f, S) ==
  IF S = {} THEN 0
  ELSE LET x == CHOOSE x \in S : TRUE IN f[x] + SumOver(f, S \ {x})

\* how many times index i is listed in the wrappers of plan n
RECURSIVE EmbeddedIn(_, _)
EmbeddedIn(n, i) ==
  CASE Tag(n) = "Indexed" -> Occurrences(n[3].indexes, i)
    [] Tag(n) = "Filter" -> EmbeddedIn(n[3], i)
    [] Tag(n) = "Join" -> EmbeddedIn(n[2], i) + EmbeddedIn(n[3], i)
    [] OTHER -> 0

\* how many times the running application of the pass has embedded index i
Embedded(i) ==
  IF out = NilNode THEN 0 ELSE EmbeddedIn(out, i) - EmbeddedIn(node, i)

\* how many times index i is listed in the running map
Held(i) ==
  LET f == [tb \in DOMAIN indexes.m |-> Occurrences(indexes.m[tb].indexes, i)]
  IN SumOver(f, DOMAIN indexes.m)

ReturnedPlan == pc = "done" /\ err = "nil"

ReturnedError == pc = "done" /\ err \notin {"nil", "panic"}

(***************************************************************************)
(* C1.  Borrow conservation: when assignIndexes returns a plan, the number *)
(* of borrows equals the number of releases made by the pass plus the      *)
(* number of indexes embedded in the wrappers of the returned plan.        *)
(***************************************************************************)
C1_BorrowConservation ==
  ReturnedPlan =>
    LET b == [i \in IndexSet |-> Borrows(log, i)]
        r == [i \in IndexSet |-> Releases(log, i)]
        e == [i \in IndexSet |-> Embedded(i)]
    IN SumOver(b, IndexSet) = SumOver(r, IndexSet) + SumOver(e, IndexSet)

(***************************************************************************)
(* C2.  No double release: after every catalog call of the pass, each      *)
(* index has been released at most as often as it has been borrowed, and   *)
(* the borrows embedded in wrappers are not among the released ones.       *)
(***************************************************************************)
C2_NoDoubleRelease ==
  \A i \in IndexSet :
    /\ \A n \in 0..Len(log) :
         Releases(SubSeq(log, 1, n), i) <= Borrows(SubSeq(log, 1, n), i)
    /\ Releases(log, i) + Embedded(i) <= Borrows(log, i)

\* the pass has returned a plan for which an index was borrowed twice, one
\* borrow released and the other embedded in a wrapper
C2_Witness ==
  /\ ReturnedPlan
  /\ \E i \in IndexSet :
       Borrows(log, i) = 2 /\ Releases(log, i) = 1 /\ Embedded(i) = 1

(***************************************************************************)
(* The rows a plan yields.  An assignment gives one row to every leaf of   *)
(* the plan; the plan yields the combination when every Filter holds of    *)
(* it, and a wrapped leaf only visits the rows in the key set of its       *)
(* lookup.  A column of a predicate is read from the leftmost leaf of its  *)
(* table below the Filter.                                                 *)
(***************************************************************************)
Null == 0 - 1

IsLeaf(n) == Len(Children(n)) = 0

LeafPaths(n) ==
  LET all == PostOrder(n, <<>>)
  IN {all[k] : k \in {j \in 1..Len(all) : IsLeaf(NodeAt(n, all[j]))}}

FilterPaths(n) ==
  LET all == PostOrder(n, <<>>)
  IN {all[k] : k \in {j \in 1..Len(all) : Tag(NodeAt(n, all[j])) = "Filter"}}

RowsOf(name) == [TableCols(name) -> Keys]

RECURSIVE Assignments(_, _)
Assignments(n, leaves) ==
  IF leaves = {} THEN {<<>>}
  ELSE LET p == CHOOSE p \in leaves : TRUE
       IN {(p :> r) @@ a : r \in RowsOf(NodeAt(n, p)[2]),
                           a \in Assignments(n, leaves \ {p})}

\* the value of column c for the Filter at path fp
ColumnValue(n, fp, rho, c) ==
  LET below == PostOrder(NodeAt(n, fp), fp)
      mine == {k \in 1..Len(below) :
                 /\ IsLeaf(NodeAt(n, below[k]))
                 /\ NodeAt(n, below[k])[2] = ColTable(c)}
  IN IF mine = {} THEN Null
     ELSE rho[below[CHOOSE k \in mine : \A j \in mine : k <= j]][c]

OperandValue(n, fp, rho, x) ==
  CASE Tag(x) = "Col" -> ColumnValue(n, fp, rho, x[2])
    [] Tag(x) = "Lit" -> x[2]
    [] OTHER -> Null

Compare(op, a, b) ==
  /\ a # Null
  /\ b # Null
  /\ CASE op = "Eq" -> a = b
       [] op = "Lt" -> a < b
       [] op = "Gt" -> a > b
       [] op = "Le" -> a <= b
       [] OTHER -> a >= b

RECURSIVE Holds(_, _, _, _)
Holds(n, fp, rho, e) ==
  CASE Tag(e) \in CmpOps ->
         Compare(Tag(e), OperandValue(n, fp, rho, e[2]),
                 OperandValue(n, fp, rho, e[3]))
    [] Tag(e) = "In" ->
         /\ IsTuple(e[3])
         /\ \E k \in 1..Len(e[3][2]) :
              Compare("Eq", OperandValue(n, fp, rho, e[2]), e[3][2][k])
    [] Tag(e) = "Between" ->
         /\ Compare("Ge", OperandValue(n, fp, rho, e[2]),
                    OperandValue(n, fp, rho, e[3]))
         /\ Compare("Le", OperandValue(n, fp, rho, e[2]),
                    OperandValue(n, fp, rho, e[4]))
    [] Tag(e) = "And" -> Holds(n, fp, rho, e[2]) /\ Holds(n, fp, rho, e[3])
    [] Tag(e) = "Or" -> Holds(n, fp, rho, e[2]) \/ Holds(n, fp, rho, e[3])
    [] OTHER -> TRUE

\* the plan without wrappers yields the combination rho
Yields(n, rho) ==
  \A fp \in FilterPaths(n) : Holds(n, fp, rho, NodeAt(n, fp)[2])

\* every wrapped leaf visits its row of rho
Visits(n, rho) ==
  \A p \in LeafPaths(n) :
    Tag(NodeAt(n, p)) = "Indexed" => Matches(NodeAt(n, p)[3].lookup, rho[p])

(***************************************************************************)
(* C3.  Equivalence under residual filter: in the plan the pass returns,   *)
(* every combination of rows that the input plan yields is still visited   *)
(* by the wrapped scans, i.e. no lookup is narrower than the predicates.   *)
(***************************************************************************)
C3_ResidualEquivalence ==
  (ReturnedPlan /\ run = 1 /\ Resolved(node)) =>
    \A rho \in Assignments(node, LeafPaths(node)) :
      Yields(node, rho) => Visits(out, rho)

(***************************************************************************)
(* Predicates of the states the claims about getIndexes speak of.          *)
(***************************************************************************)
\* the plan is one Filter over scans, and the first application of the
\* pass has folded its predicate into the running map without error
SingleFilterFolded ==
  /\ run = 1
  /\ Tag(node) = "Filter"
  /\ FilterPaths(node) = {<<>>}
  /\ ~indexes.nil

\* the same, right after the Inspect callback has returned
SingleFilterVisited == SingleFilterFolded /\ pc = "inspect"

TableSet == {Tables[j] : j \in 1..Len(Tables)}

Elements(seq) == {seq[k] : k \in 1..Len(seq)}

(***************************************************************************)
(* C4.  Safe degradation under OR: when a branch of Or(l, r) has no lookup *)
(* for a table, the map getIndexes returns has none for it; for            *)
(* `t.a = 1 OR u.c = 2` no scan is wrapped and both indexes are released.  *)
(***************************************************************************)
C4_OrDegradation ==
  /\ (SingleFilterVisited /\ Tag(node[2]) = "Or") =>
       \A tb \in TableSet :
         (tb \notin DOMAIN getIndexes(node[2][2]).m
            \/ tb \notin DOMAIN getIndexes(node[2][3]).m)
         => tb \notin DOMAIN indexes.m
  /\ (ReturnedPlan /\ run = 1
      /\ node = <<"Filter",
                  <<"Or", <<"Eq", ColE("ta"), LitE(1)>>,
                          <<"Eq", ColE("uc"), LitE(MaxVal)>>>>,
                  <<"Join", ScanT, ScanU>>>>)
     => /\ out = node
        /\ Releases(log, "ia") = 1
        /\ Releases(log, "ic") = 1

(***************************************************************************)
(* C5.  Operand normalisation: the map for `v OP col` is the map for the   *)
(* mirrored comparison `col OP' v`, and its lookup contains every key k    *)
(* for which `v OP k` holds.                                               *)
(***************************************************************************)
Mirror(op) ==
  CASE op = "Lt" -> "Gt"
    [] op = "Le" -> "Ge"
    [] op = "Gt" -> "Lt"
    [] op = "Ge" -> "Le"
    [] OTHER -> op

C5_OperandNormalisation ==
  (/\ SingleFilterVisited
   /\ Tag(node[2]) \in CmpOps
   /\ Tag(node[2][2]) = "Lit"
   /\ Tag(node[2][3]) = "Col")
  => /\ indexes.m =
          getIndexesComparison(<<Mirror(Tag(node[2])), node[2][3], node[2][2]>>).m
     /\ \A tb \in DOMAIN indexes.m :
          \A row \in RowsOf(tb) :
            Compare(Tag(node[2]), node[2][2][2], row[node[2][3][2]])
            => Matches(indexes.m[tb].lookup, row)

(***************************************************************************)
(* C6.  Release on error: when assignIndexes has returned an error, every  *)
(* index has been released as often as it was borrowed.                    *)
(***************************************************************************)
C6_ReleaseOnError ==
  ReturnedError => \A i \in IndexSet : Releases(log, i) = Borrows(log, i)

(***************************************************************************)
(* C7.  Errors are surfaced: when getIndexes fails on the predicate of a   *)
(* Filter of the plan, assignIndexes returns the error and no plan.        *)
(***************************************************************************)
C7_ErrorsSurfaced ==
  (/\ pc = "done"
   /\ run = 1
   /\ Resolved(node)
   /\ \E fp \in FilterPaths(node) :
        getIndexes(NodeAt(node, fp)[2]).err \in {"EvalFailure", "InvalidInRhs"})
  => (err # "nil" /\ out = NilNode)

(***************************************************************************)
(* C8.  Idempotence: applying the pass to the plan it returned returns the *)
(* same plan, and the second application releases every index it borrows.  *)
(***************************************************************************)
C8_Idempotence ==
  (ReturnedPlan /\ run = 2) =>
    /\ out = plan1
    /\ \A i \in IndexSet : Releases(log, i) = Borrows(log, i)

(***************************************************************************)
(* C9.  IN with a late unmergeable element.                                *)
(***************************************************************************)
\* the predicate is `col IN (v1, ..., vn)` and the union of the point
\* lookups stops at an element that cannot be merged
UnmergeableIn ==
  /\ SingleFilterFolded
  /\ Tag(node[2]) = "In"
  /\ IsTuple(node[2][3])
  /\ ~InUnion(IndexByExpression(<<node[2][2]>>), node[2][3][2], 2,
              <<"Get", IndexByExpression(<<node[2][2]>>),
                <<node[2][3][2][1]>>>>).ok

\* C9 as claimed: the table is given the union of the point lookups that
\* were merged before the unmergeable element
C9_PartialUnion ==
  UnmergeableIn =>
    /\ err = "nil"
    /\ ColTable(node[2][2][2]) \in DOMAIN indexes.m
    /\ indexes.m[ColTable(node[2][2][2])].lookup =
         InUnion(IndexByExpression(<<node[2][2]>>), node[2][3][2], 2,
                 <<"Get", IndexByExpression(<<node[2][2]>>),
                   <<node[2][3][2][1]>>>>).lookup

\* C9 as amended: when an element of the IN cannot be merged, getIndexes
\* returns the empty map without error, the borrowed index is released
\* exactly once and the scan is not wrapped
C9_UnmergeableInReleases ==
  UnmergeableIn =>
    /\ err = "nil"
    /\ indexes.m = EmptyMap
    /\ log = <<Borrow(IndexByExpression(<<node[2][2]>>)),
               Release(IndexByExpression(<<node[2][2]>>))>>
    /\ pc = "done" => out = node

\* the pass has returned for an IN of three values whose first two were
\* merged and whose third could not be
C9_Witness ==
  /\ UnmergeableIn
  /\ pc = "done"
  /\ Len(node[2][3][2]) = 3
  /\ Tag(InUnion(IndexByExpression(<<node[2][2]>>), node[2][3][2], 2,
                 <<"Get", IndexByExpression(<<node[2][2]>>),
                   <<node[2][3][2][1]>>>>).lookup) = "Union"

(***************************************************************************)
(* C10.  OR keep-left policy: for a table with a lookup in both branches,  *)
(* mergeable lookups become their Union with both index lists; otherwise   *)
(* the left entry is kept and the right branch's indexes for the table are *)
(* released (no borrow of them is left outside the map).                   *)
(***************************************************************************)
OrKeepLeft(l, r) ==
  \A tb \in (DOMAIN l.m) \cap (DOMAIN r.m) :
    IF canMergeIndexes(l.m[tb].lookup, r.m[tb].lookup)
    THEN indexes.m[tb] =
           Binding(<<"Union", l.m[tb].lookup, r.m[tb].lookup>>,
                   l.m[tb].indexes \o r.m[tb].indexes)
    ELSE /\ indexes.m[tb] = l.m[tb]
         /\ \A i \in Elements(r.m[tb].indexes) :
              Borrows(log, i) - Releases(log, i) = Held(i)

C10_OrKeepLeft ==
  (SingleFilterVisited /\ Tag(node[2]) = "Or") =>
    OrKeepLeft(getIndexes(node[2][2]), getIndexes(node[2][3]))

(***************************************************************************)
(* C11.  Capability mapping for a single comparison of a column and a      *)
(* value v with an index on the column: Eq yields Get(v), Gt               *)
(* DescendGreater(v) on a DescendIndex, Ge AscendGreaterOrEqual(v) on an   *)
(* AscendIndex, Lt AscendLessThan(v) on an AscendIndex, Le                 *)
(* DescendLessOrEqual(v) on a DescendIndex (by the operator as it is       *)
(* written, whichever side the column is on); without the                  *)
(* needed capability the map is empty, no scan is wrapped and the borrowed *)
(* index is released exactly once.                                         *)
(***************************************************************************)
\* the predicate of the only Filter is `col OP v` or `v OP col`
SingleComparison ==
  /\ SingleFilterFolded
  /\ Tag(node[2]) \in CmpOps
  /\ {Tag(node[2][2]), Tag(node[2][3])} = {"Col", "Lit"}

\* the column operand and the literal operand of comparison e
ColumnOf(e) == IF Tag(e[2]) = "Col" THEN e[2] ELSE e[3]

LiteralOf(e) == IF Tag(e[2]) = "Col" THEN e[3] ELSE e[2]

HasCapability(op) ==
  CASE op \in {"Gt", "Le"} -> cat.desc
    [] op \in {"Ge", "Lt"} -> cat.asc
    [] OTHER -> TRUE

LookupKind(op) ==
  CASE op = "Eq" -> "Get"
    [] op = "Gt" -> "DescendGreater"
    [] op = "Ge" -> "AscendGreaterOrEqual"
    [] op = "Lt" -> "AscendLessThan"
    [] OTHER -> "DescendLessOrEqual"

\* the leaves of plan n that scan table tb
LeavesOf(n, tb) == {p \in LeafPaths(n) : NodeAt(n, p)[2] = tb}

CapabilityMapping(op, idx, v) ==
  IF HasCapability(op)
  THEN /\ log[1] = Borrow(idx)
       /\ pc = "inspect" =>
            /\ log = <<Borrow(idx)>>
            /\ indexes.m = (IndexTable(idx) :>
                              Binding(<<LookupKind(op), idx, <<v>>>>, <<idx>>))
       /\ (pc = "done" /\ LeavesOf(node, IndexTable(idx)) # {}) =>
            /\ log = <<Borrow(idx)>>
            /\ \E p \in LeavesOf(node, IndexTable(idx)) :
                 NodeAt(out, p) =
                   <<"Indexed", IndexTable(idx),
                     Binding(<<LookupKind(op), idx, <<v>>>>, <<idx>>)>>
  ELSE /\ indexes.m = EmptyMap
       /\ log = <<Borrow(idx), Release(idx)>>
       /\ pc = "done" => out = node

C11_CapabilityMapping ==
  SingleComparison =>
    CapabilityMapping(Tag(node[2]), IndexByExpression(<<ColumnOf(node[2])>>),
                      LiteralOf(node[2])[2])

\* the pass has returned for `col >= v` on an index that is only a
\* DescendIndex: nothing is wrapped
C11_Witness ==
  /\ SingleComparison
  /\ pc = "done"
  /\ Tag(node[2]) = "Ge"
  /\ ~cat.asc
  /\ cat.desc
  /\ out = node
  /\ Len(log) = 2

(***************************************************************************)
(* C12.  Composite AND: for `x AND y` whose conjuncts are comparisons of   *)
(* one kind on the two key columns of the composite index iab, getIndexes  *)
(* borrows iab and no other index, builds one composite lookup whose       *)
(* values follow the key order of iab, marks both conjuncts as used and    *)
(* looks up no single-column index for them.  (The lookup exists when the  *)
(* index has the capability of the kind; else iab is released once.)       *)
(***************************************************************************)
\* the literal that conjunction e compares column c with
ValueFor(e, c) == IF e[2][2] = ColE(c) THEN e[2][3][2] ELSE e[3][3][2]

\* the predicate of the only Filter is `x AND y`, x and y comparisons of
\* the same kind that compare t.a and t.b (in either order) with literals
CompositeAnd ==
  /\ SingleFilterFolded
  /\ Tag(node[2]) = "And"
  /\ Tag(node[2][2]) \in CmpOps
  /\ Tag(node[2][3]) = Tag(node[2][2])
  /\ {node[2][2][2], node[2][3][2]} = {ColE("ta"), ColE("tb")}
  /\ Tag(node[2][2][3]) = "Lit"
  /\ Tag(node[2][3][3]) = "Lit"

CompositeBinding(op, e) ==
  Binding(<<LookupKind(op), "iab", <<ValueFor(e, "ta"), ValueFor(e, "tb")>>>>,
          <<"iab">>)

CompositeLookup(op, e) ==
  /\ getMultiColumnIndexes(splitExpression(e)).used = {1, 2}
  /\ \A i \in IndexSet : Borrows(log, i) = IF i = "iab" THEN 1 ELSE 0
  /\ IF HasCapability(op)
     THEN /\ log = <<Borrow("iab")>>
          /\ pc = "inspect" => indexes.m = ("t" :> CompositeBinding(op, e))
          /\ pc = "done" =>
               \E p \in LeavesOf(node, "t") :
                 NodeAt(out, p) = <<"Indexed", "t", CompositeBinding(op, e)>>
     ELSE /\ log = <<Borrow("iab"), Release("iab")>>
          /\ indexes.m = EmptyMap
          /\ pc = "done" => out = node

C12_CompositeAnd == CompositeAnd => CompositeLookup(Tag(node[2][2]), node[2])

\* the pass has returned for `t.b = 2 AND t.a = 1`: the scan of t is wrapped
\* with Get(1, 2) on iab
C12_Witness ==
  /\ CompositeAnd
  /\ pc = "done"
  /\ node[2] = <<"And", <<"Eq", ColE("tb"), LitE(MaxVal)>>,
                        <<"Eq", ColE("ta"), LitE(1)>>>>
  /\ \E p \in LeavesOf(node, "t") :
       NodeAt(out, p) =
         <<"Indexed", "t", Binding(<<"Get", "iab", <<1, MaxVal>>>>, <<"iab">>)>>

(***************************************************************************)
(* C13.  Intersect combinator: indexesIntersection(left, right) has the    *)
(* tables of both maps; for a table of both, mergeable lookups become      *)
(* Intersection(left, right) with the right's indexes appended to the      *)
(* left's, and otherwise the left entry is kept and every index of the     *)
(* right entry is released exactly once; the entry of a table of one side  *)
(* only passes through without a release.  Observed where the pass folds   *)
(* the map of a second Filter into the running map.                        *)
(***************************************************************************)
\* the order in which plan.Inspect visits the nodes: parents first
RECURSIVE PreOrder(_, _)
PreOrder(n, p) ==
  <<p>> \o Flatten([k \in 1..Len(Children(n)) |->
                      PreOrder(n[Children(n)[k]], Append(p, Children(n)[k]))])

\* the predicates of the Filters of plan n in the order Inspect visits them
FilterPredicates(n) ==
  LET IsFilter(p) == Tag(NodeAt(n, p)) = "Filter"
      fs == SelectSeq(PreOrder(n, <<>>), IsFilter)
  IN [k \in 1..Len(fs) |-> NodeAt(n, fs[k])[2]]

\* the first application of the pass has visited the two Filters of the plan
TwoFiltersVisited ==
  /\ run = 1
  /\ Resolved(node)
  /\ Len(FilterPredicates(node)) = 2
  /\ pc = "inspect"
  /\ Len(todo) = 0

Both(left, right) == (DOMAIN left) \cap (DOMAIN right)

Unmergeable(left, right, tb) ==
  /\ tb \in Both(left, right)
  /\ ~canMergeIndexes(left[tb].lookup, right[tb].lookup)

\* result is the intersection of left and right, and step, the catalog
\* calls made to build it, releases the unmergeable right entries
IntersectContract(left, right, result, step) ==
  /\ DOMAIN result = (DOMAIN left) \cup (DOMAIN right)
  /\ \A tb \in Both(left, right) :
       IF Unmergeable(left, right, tb)
       THEN result[tb] = left[tb]
       ELSE result[tb] =
              Binding(<<"Intersection", left[tb].lookup, right[tb].lookup>>,
                      left[tb].indexes \o right[tb].indexes)
  /\ \A tb \in (DOMAIN left) \ (DOMAIN right) : result[tb] = left[tb]
  /\ \A tb \in (DOMAIN right) \ (DOMAIN left) : result[tb] = right[tb]
  /\ \A k \in 1..Len(step) : step[k][1] = "R"
  /\ \A i \in IndexSet :
       Releases(step, i) =
         IF Unmergeable(left, right, IndexTable(i))
         THEN Occurrences(right[IndexTable(i)].indexes, i)
         ELSE 0

\* l and r are what getIndexes returned for the first and the second Filter
FoldContract(l, r) ==
  (l.err = "nil" /\ r.err = "nil") =>
    /\ Len(log) >= Len(l.ev) + Len(r.ev)
    /\ SubSeq(log, 1, Len(l.ev) + Len(r.ev)) = l.ev \o r.ev
    /\ IntersectContract(l.m, r.m, indexes.m,
                         SubSeq(log, Len(l.ev) + Len(r.ev) + 1, Len(log)))

C13_Intersect ==
  TwoFiltersVisited =>
    FoldContract(getIndexes(FilterPredicates(node)[1]),
                 getIndexes(FilterPredicates(node)[2]))

\* the second Filter's entry lists ia twice and cannot be merged with the
\* first Filter's lookup on ib: both borrows of ia are released
C13_Witness ==
  /\ TwoFiltersVisited
  /\ err = "nil"
  /\ FilterPredicates(node)[1] = <<"Eq", ColE("tb"), LitE(1)>>
  /\ FilterPredicates(node)[2] \in TwoIndexAtoms
  /\ cat.merge = "full"
  /\ Releases(log, "ia") = 2
  /\ indexes.m = ("t" :> Binding(<<"Get", "ib", <<1>>>>, <<"ib">>))

(***************************************************************************)
(* C14.  BETWEEN: for `col BETWEEN lo AND hi` with an index on col the     *)
(* lookup is Union(AscendRange([lo], [hi]), DescendRange([hi], [lo]))      *)
(* exactly when the index is an AscendIndex and a DescendIndex and the two *)
(* range lookups are mergeable; in every other case getIndexes returns the *)
(* empty map and the borrowed index is released exactly once.              *)
(***************************************************************************)
\* the Inspect callback has called getIndexes on `col BETWEEN lo AND hi`,
\* the predicate of the only Filter (every column has an index, so the
\* catalog has been called)
SingleBetween ==
  /\ run = 1
  /\ Tag(node) = "Filter"
  /\ FilterPaths(node) = {<<>>}
  /\ Resolved(node)
  /\ Tag(node[2]) = "Between"
  /\ Tag(node[2][3]) = "Lit"
  /\ Tag(node[2][4]) = "Lit"
  /\ log # <<>>

AscendRangeOf(idx, e) == <<"AscendRange", idx, <<e[3][2]>>, <<e[4][2]>>>>

DescendRangeOf(idx, e) == <<"DescendRange", idx, <<e[4][2]>>, <<e[3][2]>>>>

BetweenContract(idx, e) ==
  IF cat.asc /\ cat.desc
     /\ canMergeIndexes(AscendRangeOf(idx, e), DescendRangeOf(idx, e))
  THEN /\ err = "nil"
       /\ pc = "inspect" =>
            /\ log = <<Borrow(idx)>>
            /\ indexes.m =
                 (IndexTable(idx) :>
                    Binding(<<"Union", AscendRangeOf(idx, e),
                              DescendRangeOf(idx, e)>>, <<idx>>))
  ELSE /\ err = "nil"
       /\ indexes = [nil |-> FALSE, m |-> EmptyMap]
       /\ log = <<Borrow(idx), Release(idx)>>

C14_Between ==
  SingleBetween => BetweenContract(IndexByExpression(<<node[2][2]>>), node[2])

(***************************************************************************)
(* C15.  Unresolved plans are untouched: for a plan with an unresolved     *)
(* node assignIndexes returns the same plan and no error, and the catalog  *)
(* sees no borrow and no release.                                          *)
(***************************************************************************)
\* plan n has an unresolved table
RECURSIVE HasUnresolved(_)
HasUnresolved(n) ==
  \/ Tag(n) = "Unresolved"
  \/ \E k \in 1..Len(Children(n)) : HasUnresolved(n[Children(n)[k]])

C15_UnresolvedUntouched ==
  HasUnresolved(node) =>
    /\ pc \in {"start", "done"}
    /\ log = <<>>
    /\ indexes = NilIndexes
    /\ err = "nil"
    /\ pc = "done" => out = node

\* the pass has returned for a plan whose Filter has an indexable
\* predicate over an unresolved table
C15_Witness ==
  /\ HasUnresolved(node)
  /\ pc = "done"
  /\ run = 1
  /\ node[2] = <<"Eq", ColE("ta"), LitE(1)>>
  /\ out = node

(***************************************************************************)
(* C16.  Residual filter preserved: the plan assignIndexes returns has     *)
(* every Filter of the input plan at the same position with the same       *)
(* predicate; the only nodes that differ are table scans replaced by a     *)
(* wrapper around the same scan.                                           *)
(***************************************************************************)
\* plan b is plan a with some of its scans wrapped
RECURSIVE WrapsOnly(_, _)
WrapsOnly(a, b) ==
  CASE Tag(a) = "Scan" -> b = a \/ (Tag(b) = "Indexed" /\ b[2] = a[2])
    [] Tag(a) = "Filter" ->
         Tag(b) = "Filter" /\ b[2] = a[2] /\ WrapsOnly(a[3], b[3])
    [] Tag(a) = "Join" ->
         Tag(b) = "Join" /\ WrapsOnly(a[2], b[2]) /\ WrapsOnly(a[3], b[3])
    [] OTHER -> b = a

C16_FilterPreserved ==
  /\ out # NilNode => WrapsOnly(node, out)
  /\ ReturnedPlan => out # NilNode

\* the pass has returned a plan with a wrapped scan below two Filters
C16_Witness ==
  /\ ReturnedPlan
  /\ run = 1
  /\ Tag(node) = "Filter"
  /\ Tag(node[3]) = "Filter"
  /\ Tag(out[3][3]) = "Indexed"

(***************************************************************************)
(* C17.  Ownership hand-over in the rewriter: the step that wraps a scan   *)
(* of table T removes the entry of T from the map, so one pass wraps at    *)
(* most one scan per table name (a second scan of the name stays as it     *)
(* is), and the deferred release releases exactly the indexes of the       *)
(* entries still in the map, never those of an installed wrapper.          *)
(***************************************************************************)
\* the leaves of the input plan that the running application has wrapped
NewlyWrapped ==
  IF out = NilNode THEN {}
  ELSE {p \in LeafPaths(node) :
          Tag(NodeAt(node, p)) = "Scan" /\ Tag(NodeAt(out, p)) = "Indexed"}

\* at most one scan per table name is wrapped, and the entry of a wrapped
\* scan is no longer in the map
WrappedOnce ==
  /\ \A p \in NewlyWrapped : NodeAt(node, p)[2] \notin DOMAIN indexes.m
  /\ \A p, q \in NewlyWrapped :
       NodeAt(node, p)[2] = NodeAt(node, q)[2] => p = q

\* a step that changes the plan wraps one scan with the entry of its name
\* and removes that entry, without a catalog call
WrapMovesEntry ==
  (pc = "transform" /\ out' # out) =>
    \E p \in LeafPaths(out) :
      /\ Tag(NodeAt(out, p)) = "Scan"
      /\ NodeAt(out, p)[2] \in DOMAIN indexes.m
      /\ out' = ReplaceAt(out, p, <<"Indexed", NodeAt(out, p)[2],
                                    indexes.m[NodeAt(out, p)[2]]>>)
      /\ DOMAIN indexes'.m = (DOMAIN indexes.m) \ {NodeAt(out, p)[2]}
      /\ \A tb \in DOMAIN indexes'.m : indexes'.m[tb] = indexes.m[tb]
      /\ log' = log

\* the return of the function releases what the map holds and nothing else
CleanupReleasesHeld ==
  (pc = "return" /\ pc' = "done") =>
    /\ out' = out
    /\ \A i \in IndexSet :
         /\ Borrows(log', i) = Borrows(log, i)
         /\ Releases(log', i) = Releases(log, i) + Held(i)

C17_OwnershipHandOver ==
  /\ []WrappedOnce
  /\ [][WrapMovesEntry]_vars
  /\ [][CleanupReleasesHeld]_vars

\* the pass has returned for a Filter over two scans of t: the first is
\* wrapped with the borrowed index, the second is not, nothing is released
C17_Witness ==
  /\ ReturnedPlan
  /\ run = 1
  /\ node = <<"Filter", <<"Eq", ColE("tb"), LitE(1)>>, <<"Join", ScanT, ScanT>>>>
  /\ out[3] = <<"Join", <<"Indexed", "t",
                          Binding(<<"Get", "ib", <<1>>>>, <<"ib">>)>>, ScanT>>
  /\ log = <<Borrow("ib")>>

(***************************************************************************)
(* C18.  Monotone narrowing under AND: when the running map and the map of *)
(* the next Filter both have a lookup for a table and the two are          *)
(* mergeable, the key set of the lookup after the fold is a subset of the  *)
(* key set of each of the two; this holds at every fold of the pass.       *)
(***************************************************************************)
\* every row in the key set of lookup a is in the key set of lookup b
Narrower(tb, a, b) == \A row \in RowsOf(tb) : Matches(a, row) => Matches(b, row)

\* r is what getIndexes returns for the Filter the callback is called on
FoldNarrows(r) ==
  r.err = "nil" =>
    \A tb \in Both(indexes.m, r.m) :
      canMergeIndexes(indexes.m[tb].lookup, r.m[tb].lookup) =>
        /\ tb \in DOMAIN indexes'.m
        /\ Narrower(tb, indexes'.m[tb].lookup, indexes.m[tb].lookup)
        /\ Narrower(tb, indexes'.m[tb].lookup, r.m[tb].lookup)

NarrowingStep ==
  (/\ pc = "inspect"
   /\ Len(todo) > 0
   /\ Tag(NodeAt(node, Head(todo))) = "Filter"
   /\ ~indexes.nil)
  => FoldNarrows(getIndexes(NodeAt(node, Head(todo))[2]))

C18_MonotoneNarrowing == [][NarrowingStep]_vars

\* the maps of three Filters on t.a have been folded into one lookup that
\* is strictly narrower than the lookup of the first Filter
C18_Witness ==
  /\ run = 1
  /\ pc = "inspect"
  /\ Len(FilterPredicates(node)) = 3
  /\ "t" \in DOMAIN indexes.m
  /\ Tag(indexes.m["t"].lookup) = "Intersection"
  /\ Tag(indexes.m["t"].lookup[2]) = "Intersection"
  /\ Len(indexes.m["t"].indexes) = 3
  /\ ~Narrower("t", indexes.m["t"].lookup[2][2], indexes.m["t"].lookup)

(***************************************************************************)
(* C19.  Set operations are guarded: a Union or Intersection is only ever  *)
(* built from two lookups for which the full mergeability predicate holds  *)
(* (Mergeable, IsMergeable and SetOperations), and a lookup without        *)
(* SetOperations makes the operation be refused: no type assertion of the  *)
(* pass fails.                                                             *)
(***************************************************************************)
\* every set operation inside lookup l was allowed by canMergeIndexes
RECURSIVE Guarded(_)
Guarded(l) ==
  Tag(l) \in {"Union", "Intersection"} =>
    /\ canMergeIndexes(l[2], l[3])
    /\ Guarded(l[2])
    /\ Guarded(l[3])

\* the lookups installed in the wrappers of plan n are guarded
RECURSIVE GuardedIn(_)
GuardedIn(n) ==
  CASE Tag(n) = "Indexed" -> Guarded(n[3].lookup)
    [] Tag(n) = "Filter" -> GuardedIn(n[3])
    [] Tag(n) = "Join" -> GuardedIn(n[2]) /\ GuardedIn(n[3])
    [] OTHER -> TRUE

SetOperationsChecked ==
  /\ \A tb \in DOMAIN indexes.m : Guarded(indexes.m[tb].lookup)
  /\ out # NilNode => GuardedIn(out)

C19_SetOperationsGuarded == SetOperationsChecked /\ err # "panic"

(***************************************************************************)
(* C20.  Filter scope: the lookup installed on a scan is built from the    *)
(* predicates of the Filters above that scan and of no other Filter; with  *)
(* Filters in different subtrees over scans of one table name, each scan   *)
(* gets the lookup of its own Filters only.                                *)
(***************************************************************************)
\* the predicates of the Filters above the node at path p, top-down
AncestorPredicates(n, p) ==
  LET IsFilter(k) == Tag(NodeAt(n, SubSeq(p, 1, k))) = "Filter"
      depths == SelectSeq([k \in 1..Len(p) |-> k - 1], IsFilter)
  IN [j \in 1..Len(depths) |-> NodeAt(n, SubSeq(p, 1, depths[j]))[2]]

\* the map folded from the predicates preds, from predicate k on
RECURSIVE FoldFilters(_, _, _)
FoldFilters(preds, k, m) ==
  IF k > Len(preds) THEN m
  ELSE FoldFilters(preds, k + 1,
                   indexesIntersection(m, getIndexes(preds[k]).m).m)

\* the wrapper at path p carries the entry, for its table, of the map scoped
InScope(p, scoped) ==
  /\ NodeAt(node, p)[2] \in DOMAIN scoped
  /\ NodeAt(out, p)[3] = scoped[NodeAt(node, p)[2]]

\* the tables whose columns expression e reads
RECURSIVE TablesOf(_)
TablesOf(e) ==
  CASE Tag(e) = "Col" -> {ColTable(e[2])}
    [] Tag(e) \in {"Lit", "Tup", "Bad", "Other"} -> {}
    [] Tag(e) = "Between" -> TablesOf(e[2]) \cup TablesOf(e[3]) \cup TablesOf(e[4])
    [] OTHER -> TablesOf(e[2]) \cup TablesOf(e[3])

\* every Filter of plan n reads columns of tables scanned below it only
ColumnsInScope(n) ==
  \A fp \in FilterPaths(n) :
    TablesOf(NodeAt(n, fp)[2]) \subseteq
      {NodeAt(NodeAt(n, fp), q)[2] : q \in LeafPaths(NodeAt(n, fp))}

C20_FilterScope ==
  (/\ ReturnedPlan
   /\ run = 1
   /\ ColumnsInScope(node)
   /\ \A k \in 1..Len(FilterPredicates(node)) :
        getIndexes(FilterPredicates(node)[k]).err = "nil")
  => \A p \in NewlyWrapped :
       InScope(p, FoldFilters(AncestorPredicates(node, p), 1, EmptyMap))

(***************************************************************************)
(* C21.  LookupMap invariant (no use after release): at every point of the *)
(* pass, every index listed in the running map, in a map getIndexes        *)
(* returns or in a wrapper the pass installed is still borrowed: per       *)
(* index, the listings do not exceed the borrows not yet released.         *)
(***************************************************************************)
\* how many times index i is listed in map m
ListedIn(m, i) ==
  LET f == [tb \in DOMAIN m |-> Occurrences(m[tb].indexes, i)]
  IN SumOver(f, DOMAIN m)

\* the map r.m returned by getIndexes lists borrows that r.ev left open
ReturnedBorrowed(r) ==
  \A i \in IndexSet : ListedIn(r.m, i) <= Borrows(r.ev, i) - Releases(r.ev, i)

\* the running map (until the deferred release) and the wrappers list
\* borrows that are still open
HeldBorrowed ==
  \A i \in IndexSet :
    (IF pc = "done" THEN 0 ELSE Held(i)) + Embedded(i)
      <= Borrows(log, i) - Releases(log, i)

C21_NoUseAfterRelease ==
  /\ HeldBorrowed
  /\ (pc = "inspect" /\ Len(todo) > 0
      /\ Tag(NodeAt(node, Head(todo))) = "Filter")
     => ReturnedBorrowed(getIndexes(NodeAt(node, Head(todo))[2]))

\* two Filters borrowed ia; the lookups could not be merged, so the second
\* borrow is released and the map lists ia once
C21_Witness ==
  /\ TwoFiltersVisited
  /\ Held("ia") = 1
  /\ Borrows(log, "ia") = 2
  /\ Releases(log, "ia") = 1

(***************************************************************************)
(* C22.  Longest-prefix selection: for every (table, comparison kind)      *)
(* group of a conjunction the multi-column matcher borrows the index of    *)
(* the candidate of maximal length, the first returned among those of that *)
(* length; a group without candidate borrows nothing; conjuncts of         *)
(* different kinds are never combined into one composite lookup.           *)
(***************************************************************************)
\* the first candidate among those of maximal length
BestCandidate(cands) ==
  cands[CHOOSE k \in 1..Len(cands) :
          /\ \A j \in 1..Len(cands) : Len(cands[j]) <= Len(cands[k])
          /\ \A j \in 1..(k - 1) : Len(cands[j]) < Len(cands[k])]

\* the borrow made for a group whose candidates are cands
GroupBorrow(cands) ==
  IF Len(cands) = 0 THEN <<>>
  ELSE <<Borrow(IndexByExpression(
           [k \in 1..Len(BestCandidate(cands)) |->
              ColE(BestCandidate(cands)[k].col)]))>>

ExpectedBorrows(groups) ==
  Flatten([g \in 1..Len(groups) |->
             GroupBorrow(ExpressionsWithIndexes(groups[g].exps))])

BorrowsOnly(ev) == LET IsBorrow(x) == x[1] = "B" IN SelectSeq(ev, IsBorrow)

\* the conjuncts exprs have comparisons of kind op on both t.a and t.b
SameKindOnKey(exprs, op) ==
  \A c \in {"ta", "tb"} :
    \E k \in 1..Len(exprs) :
      /\ Tag(exprs[k]) = op
      /\ ColE(c) \in {exprs[k][2], exprs[k][3]}

\* multi is what getMultiColumnIndexes returned for the conjuncts exprs
LongestPrefix(exprs, groups, multi) ==
  /\ Len(log) >= Len(multi.ev)
  /\ SubSeq(log, 1, Len(multi.ev)) = multi.ev
  /\ BorrowsOnly(multi.ev) = ExpectedBorrows(groups)
  /\ \A g \in 1..Len(groups) :
       \A k \in 1..Len(groups[g].exps) :
         /\ Tag(groups[g].exps[k].expr) = Tag(groups[g].exps[1].expr)
         /\ ColTable(groups[g].exps[k].col) = groups[g].table
  /\ Borrows(log, "iab") > 0 =>
       \E op \in CmpOps \cup {"Between"} : SameKindOnKey(exprs, op)

C22_LongestPrefix ==
  (SingleFilterVisited /\ Tag(node[2]) = "And") =>
    LongestPrefix(splitExpression(node[2]), GroupsOf(splitExpression(node[2])),
                  getMultiColumnIndexes(splitExpression(node[2])))

\* for `t.e = 1 AND t.b = 1` the candidates [t.b] and [t.e] have the same
\* length: ib, listed first by the catalog, is borrowed by the matcher, and
\* the borrow of ie for the remaining conjunct is released
C22_Witness ==
  /\ SingleFilterVisited
  /\ node[2] = <<"And", <<"Eq", ColE("te"), LitE(1)>>,
                        <<"Eq", ColE("tb"), LitE(1)>>>>
  /\ log = <<Borrow("ib"), Borrow("ie"), Release("ie")>>

(***************************************************************************)
(* Concurrent compilations.  Every pass in Procs runs assignIndexes on its *)
(* own plan; the passes share the catalog, which counts the references of  *)
(* every index atomically.  A pass is a record                             *)
(*   [pc, node, indexes, err, out, calls, log]                             *)
(* with the fields of the sequential machine; calls are the catalog calls  *)
(* of the current phase of the pass that are still to be made, log those   *)
(* made.  One step of the specification is one catalog call of one pass,   *)
(* or a step of a pass that calls nothing.                                 *)
(***************************************************************************)
Procs == {1, 2}

\* plan.Inspect with the callback of assignIndexes from the paths td on;
\* st is [indexes, err, ev], ev the catalog calls in call order
RECURSIVE inspectRun(_, _, _)

\* lines 58-62: the map of the Filter is folded into the running map
inspectFolded(n, td, st, result, x) ==
  inspectRun(n, td,
    [indexes |-> [nil |-> FALSE,
                  m |-> IF st.indexes.nil THEN result.m ELSE x.m],
     err |-> "nil",
     ev |-> st.ev \o result.ev \o (IF st.indexes.nil THEN <<>> ELSE x.ev)])

\* lines 53-64: getIndexes returned result for the Filter at Head(td)
inspectVisited(n, td, st, result) ==
  IF result.err = "panic"
  THEN [st EXCEPT !.err = "panic", !.ev = st.ev \o result.ev]
  ELSE IF result.err # "nil"
  THEN inspectRun(n, Tail(td),
                  [st EXCEPT !.err = result.err, !.ev = st.ev \o result.ev])
  ELSE inspectFolded(n, ChildPaths(NodeAt(n, Head(td)), Head(td)) \o Tail(td),
                     st, result, indexesIntersection(st.indexes.m, result.m))

inspectRun(n, td, st) ==
  IF Len(td) = 0 THEN st
  ELSE IF Tag(NodeAt(n, Head(td))) # "Filter"
  THEN inspectRun(n, ChildPaths(NodeAt(n, Head(td)), Head(td)) \o Tail(td), st)
  ELSE inspectVisited(n, td, st, getIndexes(NodeAt(n, Head(td))[2]))

\* TransformUp with the function of assignIndexes over the paths td of plan
\* o, bottom-up: [out, m]
RECURSIVE transformRun(_, _, _)
transformRun(o, td, m) ==
  IF Len(td) = 0 THEN [out |-> o, m |-> m]
  ELSE IF Tag(NodeAt(o, Head(td))) = "Scan" /\ NodeAt(o, Head(td))[2] \in DOMAIN m
  THEN transformRun(ReplaceAt(o, Head(td),
                              <<"Indexed", NodeAt(o, Head(td))[2],
                                m[NodeAt(o, Head(td))[2]]>>),
                    Tail(td), Without(m, NodeAt(o, Head(td))[2]))
  ELSE transformRun(o, Tail(td), m)

\* the plans compiled concurrently
ConcurrentPlans ==
  {<<"Filter", <<"Eq", ColE("ta"), LitE(1)>>, ScanT>>,
   <<"Filter", <<"Ge", ColE("ta"), LitE(1)>>, ScanT>>,
   <<"Filter", <<"Eq", ColE("ta"), LitE(1)>>, ScanU>>,
   <<"Filter", <<"Or", <<"Eq", ColE("tb"), LitE(1)>>,
                       <<"Eq", ColE("ta"), LitE(1)>>>>, ScanT>>,
   <<"Filter", <<"Eq", ColE("tb"), LitE(1)>>,
     <<"Filter", <<"Eq", ColE("ta"), LitE(1)>>, ScanT>>>>,
   <<"Filter", <<"In", ColE("ta"), <<"Tup", <<1, MaxVal>>>>>>, ScanT>>,
   <<"Filter", <<"And", <<"Eq", ColE("ta"), LitE(1)>>,
                        <<"Eq", ColE("ta"), BadE>>>>, ScanT>>,
   <<"Filter", <<"Between", ColE("ta"), LitE(1), LitE(MaxVal)>>, ScanT>>,
   <<"Filter", <<"Eq", ColE("ta"), LitE(1)>>, <<"Join", ScanT, ScanT>>>>,
   <<"Filter", <<"Eq", ColE("ta"), LitE(1)>>, <<"Unresolved", "t">>>>}

NewPass(n) ==
  [pc |-> "start", node |-> n, indexes |-> NilIndexes, err |-> "nil",
   out |-> NilNode, calls |-> <<>>, log |-> <<>>]

InitConcurrent ==
  /\ cat \in Catalogs
  /\ refs = ZeroRefs
  /\ passes \in [Procs -> {NewPass(n) : n \in ConcurrentPlans}]
  /\ node = NilNode
  /\ indexes = NilIndexes
  /\ err = "nil"
  /\ pc = "start"
  /\ todo = <<>>
  /\ out = NilNode
  /\ log = <<>>
  /\ run = 1
  /\ plan1 = NilNode

sequential == <<cat, node, indexes, err, pc, todo, out, log, run, plan1>>

\* lines 24-27: an unresolved node is returned as it is
PassSkipUnresolved(p) ==
  /\ passes[p].pc = "start"
  /\ ~Resolved(passes[p].node)
  /\ passes' = [passes EXCEPT ![p].pc = "done", ![p].out = passes[p].node]
  /\ UNCHANGED <<sequential, refs>>

\* st is what plan.Inspect leaves behind and the calls it makes
inspectStarted(p, st) ==
  passes' = [passes EXCEPT ![p].pc = "inspect", ![p].indexes = st.indexes,
                           ![p].err = st.err, ![p].calls = st.ev]

\* lines 29-65: plan.Inspect; its catalog calls are made one by one
PassInspect(p) ==
  /\ passes[p].pc = "start"
  /\ Resolved(passes[p].node)
  /\ inspectStarted(p, inspectRun(passes[p].node, << <<>> >>,
                                  [indexes |-> NilIndexes, err |-> "nil",
                                   ev |-> <<>>]))
  /\ UNCHANGED <<sequential, refs>>

\* Catalog.IndexByExpression answers with an index: its count goes up
CatalogBorrow(p) ==
  /\ Len(passes[p].calls) > 0
  /\ Head(passes[p].calls)[1] = "B"
  /\ refs' = [refs EXCEPT ![Head(passes[p].calls)[2]] = @ + 1]
  /\ passes' = [passes EXCEPT ![p].calls = Tail(@),
                              ![p].log = Append(@, Head(passes[p].calls))]
  /\ UNCHANGED sequential

\* Catalog.ReleaseIndex: the count of the index goes down
CatalogRelease(p) ==
  /\ Len(passes[p].calls) > 0
  /\ Head(passes[p].calls)[1] = "R"
  /\ refs' = [refs EXCEPT ![Head(passes[p].calls)[2]] = @ - 1]
  /\ passes' = [passes EXCEPT ![p].calls = Tail(@),
                              ![p].log = Append(@, Head(passes[p].calls))]
  /\ UNCHANGED sequential

\* lines 67-69: Inspect has returned with an error
PassReturnError(p) ==
  /\ passes[p].pc = "inspect"
  /\ Len(passes[p].calls) = 0
  /\ passes[p].err # "nil"
  /\ passes' = [passes EXCEPT ![p].pc = "return"]
  /\ UNCHANGED <<sequential, refs>>

\* t is the plan TransformUp returns and what is left of the map
transformed(p, t) ==
  passes' = [passes EXCEPT ![p].pc = "return", ![p].out = t.out,
                           ![p].indexes = [nil |-> FALSE, m |-> t.m]]

\* lines 71-92: TransformUp wraps the scans; it calls nothing
PassTransform(p) ==
  /\ passes[p].pc = "inspect"
  /\ Len(passes[p].calls) = 0
  /\ passes[p].err = "nil"
  /\ transformed(p, transformRun(passes[p].node,
                                 PostOrder(passes[p].node, <<>>),
                                 passes[p].indexes.m))
  /\ UNCHANGED <<sequential, refs>>

\* lines 33-43: the deferred function starts to release what the map holds
PassDeferredRelease(p) ==
  /\ passes[p].pc = "return"
  /\ passes' = [passes EXCEPT
                  ![p].pc = "release",
                  ![p].calls = IF passes[p].indexes.nil THEN <<>>
                               ELSE DeferredReleases(passes[p].indexes)]
  /\ UNCHANGED <<sequential, refs>>

\* the deferred function has returned
PassReturn(p) ==
  /\ passes[p].pc = "release"
  /\ Len(passes[p].calls) = 0
  /\ passes' = [passes EXCEPT ![p].pc = "done"]
  /\ UNCHANGED <<sequential, refs>>

NextConcurrent ==
  \E p \in Procs :
    \/ PassSkipUnresolved(p)
    \/ PassInspect(p)
    \/ CatalogBorrow(p)
    \/ CatalogRelease(p)
    \/ PassReturnError(p)
    \/ PassTransform(p)
    \/ PassDeferredRelease(p)
    \/ PassReturn(p)

SpecConcurrent == InitConcurrent /\ [][NextConcurrent]_vars

(***************************************************************************)
(* C23.  Concurrent compilations: under every interleaving of the catalog  *)
(* calls of two passes, the reference count of every index is never below  *)
(* zero and never below the number of wrappers that embed the index,       *)
(* because every pass releases only borrows it made itself.                *)
(***************************************************************************)
\* how many wrappers of the plans returned so far embed index i
EmbeddedAll(i) ==
  LET f == [p \in Procs |-> EmbeddedIn(passes[p].out, i)]
  IN SumOver(f, Procs)

\* the borrows of index i that the passes have not released
OpenBorrows(i) ==
  LET f == [p \in Procs |->
              Borrows(passes[p].log, i) - Releases(passes[p].log, i)]
  IN SumOver(f, Procs)

C23_ConcurrentCounts ==
  \A i \in IndexSet :
    /\ refs[i] >= 0
    /\ refs[i] >= EmbeddedAll(i)
    /\ refs[i] = OpenBorrows(i)
    /\ \A p \in Procs :
         Releases(passes[p].log, i) + EmbeddedIn(passes[p].out, i)
           <= Borrows(passes[p].log, i)

\* pass 1 has a wrapper that embeds ia and has returned, while pass 2,
\* which borrowed ia too, has released its borrow
C23_Witness ==
  /\ passes[1].pc = "done"
  /\ EmbeddedIn(passes[1].out, "ia") = 1
  /\ Borrows(passes[2].log, "ia") = 1
  /\ Releases(passes[2].log, "ia") = 1
  /\ passes[2].pc = "release"
  /\ refs["ia"] = 1

====
